---------------------------- MODULE Spec2Model ----------------------------
(***************************************************************************)
(* KCI Major Gift Scraper (src/app.py): the Listing Navigator              *)
(* (get_all_article_urls), the Article Extractor (parse_single_article)    *)
(* and the "Start Scraping" handler that runs one after the other.         *)
(*                                                                         *)
(* Strings are sequences of tokens.  A token is a character ("$", "1",     *)
(* ":", " ", "\n") or a word that the code only ever treats as a whole     *)
(* ("million", "Recipient", "kciphilanthropy.com").                        *)
(***************************************************************************)
EXTENDS Integers, Sequences, FiniteSets, TLC

(***************************************************************************)
(* Text primitives (Python str / re as used by the code)                   *)
(***************************************************************************)

\* str.isspace on one token.
IsSpace(t) == t \in {" ", "\n"}

\* str.lower on one token.
Lower(t) ==
  CASE t = "Submissions" -> "submissions"
    [] t = "Notice" -> "notice"
    [] t = "NOTICE" -> "notice"
    [] t = "Recipient" -> "recipient"
    [] t = "City" -> "city"
    [] t = "CITY" -> "city"
    [] t = "Province" -> "province"
    [] t = "Date" -> "date"
    [] t = "Gift" -> "gift"
    [] t = "Million" -> "million"
    [] OTHER -> t

LowerText(s) == [i \in 1..Len(s) |-> Lower(s[i])]

RECURSIVE LStrip(_)
LStrip(s) == IF s # <<>> /\ IsSpace(Head(s)) THEN LStrip(Tail(s)) ELSE s

RECURSIVE RStrip(_)
RStrip(s) ==
  IF s # <<>> /\ IsSpace(s[Len(s)]) THEN RStrip(SubSeq(s, 1, Len(s) - 1)) ELSE s

\* str.strip()
Strip(s) == RStrip(LStrip(s))

\* v occurs in s starting at position i.
MatchAt(s, v, i) ==
  /\ i >= 1
  /\ i + Len(v) - 1 <= Len(s)
  /\ SubSeq(s, i, i + Len(v) - 1) = v

\* Python's  v in s  for a non-empty v.
Contains(s, v) == \E i \in 1..Len(s) : MatchAt(s, v, i)

RECURSIVE ReplaceFrom(_, _, _)
ReplaceFrom(s, v, i) ==
  IF i > Len(s) THEN <<>>
  ELSE IF MatchAt(s, v, i) THEN ReplaceFrom(s, v, i + Len(v))
  ELSE <<s[i]>> \o ReplaceFrom(s, v, i + 1)

\* str.replace(v, ""): the non-overlapping occurrences, left to right.
Replace(s, v) == IF v = <<>> THEN s ELSE ReplaceFrom(s, v, 1)

\* str.replace(":", "")
RemoveColons(s) == SelectSeq(s, LAMBDA t : t # ":")

RECURSIVE JoinWith(_, _)
JoinWith(parts, sep) ==
  IF parts = <<>> THEN <<>>
  ELSE IF Len(parts) = 1 THEN parts[1]
  ELSE parts[1] \o sep \o JoinWith(Tail(parts), sep)

RECURSIVE SplitWs(_, _)
\* str.split(): the maximal runs of non-whitespace; cur is the run being read.
SplitWs(s, cur) ==
  IF s = <<>> THEN (IF cur = <<>> THEN <<>> ELSE <<cur>>)
  ELSE IF IsSpace(Head(s))
       THEN (IF cur = <<>> THEN <<>> ELSE <<cur>>) \o SplitWs(Tail(s), <<>>)
       ELSE SplitWs(Tail(s), Append(cur, Head(s)))

\* ' '.join(s.split())
Collapse(s) == JoinWith(SplitWs(s, <<>>), <<" ">>)

IsDigit(t) == t \in {"1", "5"}
IsAmountChar(t) == IsDigit(t) \/ t \in {",", "."}
IsScaleWord(t) == Lower(t) \in {"million", "billion", "thousand"}

RECURSIVE SkipAmount(_, _)
\* [\d,.]*  from position i: the first position whose token is not one of them.
SkipAmount(s, i) ==
  IF i <= Len(s) /\ IsAmountChar(s[i]) THEN SkipAmount(s, i + 1) ELSE i

RECURSIVE SkipSpace(_, _)
\* \s*  from position i.
SkipSpace(s, i) ==
  IF i <= Len(s) /\ IsSpace(s[i]) THEN SkipSpace(s, i + 1) ELSE i

\* The end (exclusive) of the match of  \$\d[\d,.]*\s*(million|billion|thousand)?
\* that starts at i, re.IGNORECASE; 0 when there is none.
GiftMatchEnd(s, i) ==
  IF i + 1 <= Len(s) /\ s[i] = "$" /\ IsDigit(s[i + 1])
  THEN LET a == SkipAmount(s, i + 2)
           w == SkipSpace(s, a)
       IN IF w <= Len(s) /\ IsScaleWord(s[w]) THEN w + 1 ELSE w
  ELSE 0

\* gift_pattern.search(s): the leftmost match, <<>> standing for no match.
GiftSearch(s) ==
  LET starts == {i \in 1..Len(s) : GiftMatchEnd(s, i) # 0}
  IN IF starts = {} THEN <<>>
     ELSE LET i == CHOOSE j \in starts : \A k \in starts : j <= k
          IN SubSeq(s, i, GiftMatchEnd(s, i) - 1)

RECURSIVE SubLabelFrom(_, _, _)
SubLabelFrom(s, label, i) ==
  IF i > Len(s) THEN <<>>
  ELSE IF /\ (i = 1 \/ s[i - 1] = "\n")
          /\ i + 1 <= Len(s)
          /\ Lower(s[i]) = Lower(label)
          /\ s[i + 1] = ":"
       THEN SubLabelFrom(s, label, i + 2)
       ELSE <<s[i]>> \o SubLabelFrom(s, label, i + 1)

\* re.sub(f'^{label}:', '', s, flags=re.MULTILINE | re.IGNORECASE).strip()
StripLabel(s, label) == Strip(SubLabelFrom(s, label, 1))


(***************************************************************************)
(* Article Extractor: parse_single_article                                 *)
(*                                                                         *)
(* The main content region is a sequence of sibling elements               *)
(* [tag, text]; a response is [kind, status, malformed, raiseAt, nodes].   *)
(***************************************************************************)

\* The keys of info, in the dict's insertion order.
KeyOrder ==
  <<"Donor", "Gift", "Recipient", "City", "Province", "Date", "Description",
    "Source URL">>

Keys == {KeyOrder[i] : i \in 1..Len(KeyOrder)}

\* The labels whose residue is stripped from the description, in order.
StripOrder == <<"Recipient", "City", "Province", "Date", "Gift">>

\* elem.get_text(strip=True) of an element that holds one string.
GetText(node) == Strip(node.text)

\* "submissions notice" in donor.lower()
IsBoilerplate(donor) ==
  Contains(LowerText(donor), <<"submissions", " ", "notice">>)

\* The h2 loop's  continue  on the heading text.
SkipHeading(donor) == donor = <<>> \/ IsBoilerplate(donor)

\* The indices of the h2 elements, in document order: find_all('h2').
H2Indices(nodes) == {i \in 1..Len(nodes) : nodes[i].tag = "h2"}

\* The index just past the block of the h2 at i: the next h2 sibling, or the end.
BlockEnd(nodes, i) ==
  LET later == {j \in H2Indices(nodes) : j > i}
  IN IF later = {} THEN Len(nodes) + 1
     ELSE CHOOSE j \in later : \A k \in later : j <= k

\* content_block: the siblings that follow the h2 at i, up to the next h2.
ContentBlock(nodes, i) == SubSeq(nodes, i + 1, BlockEnd(nodes, i) - 1)

\* block_soup.get_text(separator="\n", strip=True)
BlockText(block) ==
  LET texts == [k \in 1..Len(block) |-> GetText(block[k])]
  IN JoinWith(SelectSeq(texts, LAMBDA t : t # <<>>), <<"\n">>)

\* The initial info dict.
InitInfo(donor, url) ==
  [k \in Keys |->
     IF k = "Donor" THEN donor ELSE IF k = "Source URL" THEN url ELSE <<>>]

\* label in info
LabelInInfo(label) == Len(label) = 1 /\ label[1] \in Keys

RECURSIVE ApplyLabels(_, _, _)
\* The h3 loop from element k on: a label that is a key of info takes the text
\* of the h3's next sibling element, when there is one.
ApplyLabels(info, block, k) ==
  IF k > Len(block) THEN info
  ELSE LET label == RemoveColons(GetText(block[k]))
           hit == /\ block[k].tag = "h3"
                  /\ LabelInInfo(label)
                  /\ k + 1 <= Len(block)
       IN ApplyLabels(
            IF hit THEN [info EXCEPT ![label[1]] = GetText(block[k + 1])]
            ELSE info,
            block, k + 1)

\* ApplyDate that leaves a Date already labelled by an h3 alone; C8Theorem
\* does not survive it.
ApplyDateUnlessLabelled(info, block) ==
  LET h6 == {k \in 1..Len(block) : block[k].tag = "h6"}
  IN IF h6 = {} \/ info["Date"] # <<>> THEN info
     ELSE [info EXCEPT
             !["Date"] = GetText(block[CHOOSE k \in h6 : \A j \in h6 : k <= j])]

\* date_tag = block_soup.find('h6'); a found tag is truthy whatever its text.
ApplyDate(info, block) ==
  LET h6 == {k \in 1..Len(block) : block[k].tag = "h6"}
  IN IF h6 = {} THEN info
     ELSE [info EXCEPT
             !["Date"] = GetText(block[CHOOSE k \in h6 : \A j \in h6 : k <= j])]

\* gift_match = gift_pattern.search(block_text)
ApplyGift(info, block_text) ==
  LET m == GiftSearch(block_text)
  IN IF m = <<>> THEN info ELSE [info EXCEPT !["Gift"] = m]

\* Removed with the Donor left out of the removal; C9Theorem does not
\* survive it.
RemovedExceptDonor(key, value) ==
  value # <<>> /\ key # "Source URL" /\ key # "Donor"

\* The test of the removal loop:  if value and key != "Source URL"
Removed(key, value) == value # <<>> /\ key # "Source URL"

RECURSIVE RemoveValues(_, _, _)
\* for key, value in info.items(): description_text.replace(value, "")
RemoveValues(text, info, k) ==
  IF k > Len(KeyOrder) THEN text
  ELSE RemoveValues(
         IF Removed(KeyOrder[k], info[KeyOrder[k]])
         THEN Replace(text, info[KeyOrder[k]]) ELSE text,
         info, k + 1)

RECURSIVE StripLabels(_, _)
StripLabels(text, k) ==
  IF k > Len(StripOrder) THEN text
  ELSE StripLabels(StripLabel(text, StripOrder[k]), k + 1)

\* info["Description"] for the extracted fields and the block's text.
Describe(info, block_text) ==
  Collapse(StripLabels(RemoveValues(block_text, info, 1), 1))

\* The fields as they stand when the description is derived.
Extracted(donor, block, url) ==
  ApplyGift(ApplyDate(ApplyLabels(InitInfo(donor, url), block, 1), block),
            BlockText(block))

\* One iteration of the h2 loop that reaches records.append(info).
ParseBlock(donor, block, url) ==
  LET info == Extracted(donor, block, url)
  IN [info EXCEPT !["Description"] = Describe(info, BlockText(block))]

\* r.raise_for_status(): an HTTPError for a 4xx or a 5xx status.
RaisesForStatus(status) == status \in 400..599


(***************************************************************************)
(* Listing Navigator: URLs                                                 *)
(***************************************************************************)

\* The constant named DOMAIN in the code: "https://kciphilanthropy.com"
Domain == <<"https", "://", "kciphilanthropy.com">>

\* The CSS selector  a[href*='/major-gift-news-']
MatchesSelector(href) == Contains(href, <<"/", "major-gift-news-">>)

\* urljoin(DOMAIN, href): an href with a scheme stands as it is, a
\* network-path or rooted one takes what it lacks from DOMAIN, another one is
\* resolved against DOMAIN's empty path.
UrlJoin(base, href) ==
  IF href = <<>> THEN base
  ELSE IF Len(href) >= 2 /\ href[2] = "://" THEN href
  ELSE IF href[1] = "//" THEN <<base[1], "://">> \o Tail(href)
  ELSE IF href[1] = "/" THEN base \o href
  ELSE base \o <<"/">> \o href

\* CurrentUrls without urljoin; C7Theorem does not survive it.
CurrentUrlsRaw(anchors) ==
  {anchors[i] : i \in {j \in 1..Len(anchors) : MatchesSelector(anchors[j])}}

\* current_urls: the set comprehension over soup.select(...).
CurrentUrls(anchors) ==
  {UrlJoin(Domain, anchors[i]) :
     i \in {j \in 1..Len(anchors) : MatchesSelector(anchors[j])}}

\* The code point order of the tokens' first characters.
TokRank(t) ==
  CASE t = "/" -> 1
    [] t = "//" -> 2
    [] t = "1" -> 3
    [] t = "2" -> 4
    [] t = "3" -> 5
    [] t = "://" -> 6
    [] t = "https" -> 7
    [] t = "kciphilanthropy.com" -> 8
    [] t = "major-gift-news-" -> 9
    [] OTHER -> 10

RECURSIVE StrLess(_, _)
\* a < b on strings.
StrLess(a, b) ==
  IF b = <<>> THEN FALSE
  ELSE IF a = <<>> THEN TRUE
  ELSE IF Head(a) = Head(b) THEN StrLess(Tail(a), Tail(b))
  ELSE TokRank(Head(a)) < TokRank(Head(b))

\* sorted(urls)
Sorted(list) == SortSeq(list, StrLess)

\* list(a_set): the members once each, in whatever order the set iterates.
Listings(S) ==
  {f \in [1..Cardinality(S) -> S] : \A i, j \in 1..Cardinality(S) : f[i] = f[j] => i = j}

HARD_LIMIT_CLICKS == 50

\* LoopGuard without the ceiling; C2Theorem does not survive it.
LoopGuardNoCeiling(clicks, limit) == clicks < limit

\* The while condition of the pagination loop.
LoopGuard(clicks, limit) == clicks < limit /\ clicks < HARD_LIMIT_CLICKS

\* all_urls.update(current_urls - all_urls)
Accumulate(known, current) == known \cup (current \ known)


(***************************************************************************)
(* Bounds and input sets                                                   *)
(***************************************************************************)

\* The most anchors the listing page renders at once.
MaxAnchors == 2

\* The longest main content region, in elements.
MaxNodes == 4

\* How far past the hard limit the caller's click budget is tried.
ExtraClicks == 1

\* The values of the "Max 'View More' Clicks" input that are tried.
ClickBudgets == {1, 2, HARD_LIMIT_CLICKS + ExtraClicks}

SeqsUpTo(S, n) == UNION {[1..k -> S] : k \in 0..n}

\* hrefs of the listing page: two spellings of one article, a second article,
\* and a relative href the selector does not match.
Hrefs ==
  { <<"/", "major-gift-news-", "1", "/">>,
    Domain \o <<"/", "major-gift-news-", "1", "/">>,
    <<"/", "major-gift-news-", "2", "/">>,
    <<"major-gift-news-", "3", "/">> }

\* What the rendered listing page may hold: its anchors' hrefs in document order.
Pages == SeqsUpTo(Hrefs, MaxAnchors)

Node(tag, text) == [tag |-> tag, text |-> text]

\* The elements an article is made of.
Nodes ==
  { Node("h2", <<" ", "d", " ">>),
    Node("h2", <<"Submissions", " ", "NOTICE">>),
    Node("h2", <<" ">>),
    Node("h3", <<"Donor", ":">>),
    Node("h3", <<"Recipient", ":">>),
    Node("h3", <<"Date", ":">>),
    Node("h6", <<"b">>),
    Node("p", <<"a", "b">>),
    Node("p", <<"a", "a", "b", "b">>),
    Node("p", <<"City", ":", " ", "a", " ", "$", "1", " ", "Million", " ", "d">>) }

Response(kind, status, malformed, raiseAt, nodes) ==
  [kind |-> kind, status |-> status, malformed |-> malformed,
   raiseAt |-> raiseAt, nodes |-> nodes]

\* An article with one donor block, and one with two.
ArticleA == <<Node("h2", <<" ", "d", " ">>), Node("p", <<"a", "b">>)>>
ArticleB == ArticleA \o <<Node("h2", <<" ", "d", " ">>), Node("h6", <<"b">>)>>

\* What session.get may bring back for an article URL in a run of the handler:
\* no response at all, an error status, a redirect status left unfollowed,
\* markup the parser rejects, markup that fails in the second block, and two
\* good articles.
Fixtures ==
  { Response("neterr", 0, FALSE, 0, <<>>),
    Response("http", 404, FALSE, 0, ArticleA),
    Response("http", 300, FALSE, 0, ArticleA),
    Response("http", 200, TRUE, 0, ArticleA),
    Response("http", 200, FALSE, 2, ArticleB),
    Response("http", 200, FALSE, 0, ArticleA),
    Response("http", 200, FALSE, 0, ArticleB) }

\* What session.get may bring back when the extractor is run on its own: every
\* article of up to MaxNodes elements, served well, and the fixtures.
Articles == SeqsUpTo(Nodes, MaxNodes)

UnitResponses ==
  Fixtures \cup {Response("http", 200, FALSE, 0, n) : n \in Articles}

\* The URL the extractor is run on, on its own.
UnitUrl == Domain \o <<"/", "major-gift-news-", "1", "/">>

(***************************************************************************)
(* State                                                                   *)
(***************************************************************************)

VARIABLES
  pc,            \* where the "Start Scraping" handler and the navigator stand
  max_clicks,    \* the sidebar's click budget
  driver,        \* the browser session: "none", "open", "closed"
  page,          \* the hrefs of the anchors of the rendered listing page
  all_urls,      \* get_all_article_urls: the accumulated set
  click_count,   \* get_all_article_urls: the loop counter
  urls,          \* the handler's urls
  stop,          \* why discovery ended
  clicksIssued,  \* history: calls of view_more_button.click()
  rounds,        \* history: extraction rounds
  rendered,      \* history: article URLs the page has rendered in the session
  queue,         \* sorted(urls)
  idx,           \* the position of the phase 2 loop in queue
  all_records,   \* the handler's all_records
  served,        \* history: the response each processed URL got
  fetches,       \* history: the URLs session.get was called with
  outcome,       \* the final status message
  xpc,           \* where parse_single_article stands
  url,           \* parse_single_article: url
  resp,          \* what session.get brings back for this call
  records,       \* parse_single_article: records
  h2pos,         \* the position of the h2 loop among the h2 headings
  xresult        \* what parse_single_article returned

navVars ==
  <<max_clicks, driver, page, all_urls, click_count, urls, stop, clicksIssued,
    rounds, rendered>>

phase2Vars == <<queue, idx, all_records, served, outcome>>

extractVars == <<xpc, url, resp, records, h2pos, xresult, fetches>>

vars == <<pc, navVars, phase2Vars, extractVars>>

\* The rest of the state before "Start Scraping" is pressed.
Blank ==
  /\ driver = "none"
  /\ page = <<>>
  /\ all_urls = {}
  /\ click_count = 0
  /\ urls = <<>>
  /\ stop = "none"
  /\ clicksIssued = 0
  /\ rounds = 0
  /\ rendered = {}
  /\ queue = <<>>
  /\ idx = 0
  /\ all_records = <<>>
  /\ served = <<>>
  /\ fetches = <<>>
  /\ outcome = "none"
  /\ records = <<>>
  /\ h2pos = 0
  /\ xresult = <<>>

\* The script has run to the button: the sidebar holds a click budget.
Init ==
  /\ pc = "idle"
  /\ max_clicks \in ClickBudgets
  /\ xpc = "idle"
  /\ url = <<>>
  /\ resp = Response("none", 0, FALSE, 0, <<>>)
  /\ Blank

\* parse_single_article is called on its own with some response to come.
InitExtract ==
  /\ pc = "unit"
  /\ max_clicks = 1
  /\ xpc = "get"
  /\ url = UnitUrl
  /\ resp \in UnitResponses
  /\ Blank


(***************************************************************************)
(* parse_single_article, step by step                                      *)
(***************************************************************************)

\* find_all('h2') as a list of element indices.
H2List(nodes) ==
  LET S == H2Indices(nodes)
  IN [k \in 1..Cardinality(S) |->
        CHOOSE i \in S : Cardinality({j \in S : j < i}) = k - 1]

\* Whether the h2 at index i gets past both  continue  statements.
Qualifies(nodes, i) ==
  /\ ~SkipHeading(GetText(nodes[i]))
  /\ ContentBlock(nodes, i) # <<>>

\* r = session.get(url, timeout=10): a response, or an exception.
XGet ==
  /\ xpc = "get"
  /\ fetches' = Append(fetches, url)
  /\ xpc' = IF resp.kind = "neterr" THEN "except" ELSE "status"
  /\ UNCHANGED <<pc, navVars, phase2Vars, url, resp, records, h2pos, xresult>>

\* r.raise_for_status()
XStatus ==
  /\ xpc = "status"
  /\ xpc' = IF RaisesForStatus(resp.status) THEN "except" ELSE "soup"
  /\ UNCHANGED <<pc, navVars, phase2Vars, url, resp, records, h2pos, xresult,
                 fetches>>

\* soup = BeautifulSoup(r.text, "html.parser"); records = []; main_content
XSoup ==
  /\ xpc = "soup"
  /\ IF resp.malformed
     THEN xpc' = "except" /\ UNCHANGED <<records, h2pos>>
     ELSE xpc' = "h2loop" /\ records' = <<>> /\ h2pos' = 1
  /\ UNCHANGED <<pc, navVars, phase2Vars, url, resp, xresult, fetches>>

\* One iteration of  for h2 in main_content.find_all('h2').
XBlock ==
  /\ xpc = "h2loop"
  /\ h2pos <= Len(H2List(resp.nodes))
  /\ LET i == H2List(resp.nodes)[h2pos]
     IN IF ~Qualifies(resp.nodes, i)
        THEN /\ h2pos' = h2pos + 1
             /\ UNCHANGED <<xpc, records>>
        ELSE IF resp.raiseAt = h2pos
        THEN /\ xpc' = "except"
             /\ UNCHANGED <<records, h2pos>>
        ELSE /\ records' =
                  Append(records,
                         ParseBlock(GetText(resp.nodes[i]),
                                    ContentBlock(resp.nodes, i), url))
             /\ h2pos' = h2pos + 1
             /\ UNCHANGED xpc
  /\ UNCHANGED <<pc, navVars, phase2Vars, url, resp, xresult, fetches>>

\* return records
XReturn ==
  /\ xpc = "h2loop"
  /\ h2pos > Len(H2List(resp.nodes))
  /\ xresult' = records
  /\ xpc' = "returned"
  /\ records' = <<>>
  /\ h2pos' = 0
  /\ UNCHANGED <<pc, navVars, phase2Vars, url, resp, fetches>>

\* XExcept returning the records gathered before the exception; C4Theorem
\* does not survive it.
XExceptKeepsRecords ==
  /\ xpc = "except"
  /\ xresult' = records
  /\ xpc' = "returned"
  /\ records' = <<>>
  /\ h2pos' = 0
  /\ UNCHANGED <<pc, navVars, phase2Vars, url, resp, fetches>>

\* except Exception: return []
XExcept ==
  /\ xpc = "except"
  /\ xresult' = <<>>
  /\ xpc' = "returned"
  /\ records' = <<>>
  /\ h2pos' = 0
  /\ UNCHANGED <<pc, navVars, phase2Vars, url, resp, fetches>>

Extract == XGet \/ XStatus \/ XSoup \/ XBlock \/ XReturn \/ XExcept

SpecExtract == InitExtract /\ [][Extract]_vars


(***************************************************************************)
(* get_all_article_urls, step by step                                      *)
(***************************************************************************)

\* The hrefs of a page's anchors.
HrefsOf(anchors) == {anchors[i] : i \in 1..Len(anchors)}

\* The locals and the history of a discovery call that a step leaves alone.
navRest == <<max_clicks, driver, urls>>

\* The pagination loop is left; the function goes on to its return statement.
Break(why) ==
  /\ stop' = why
  /\ pc' = "nav_return"

\* An exception leaves get_all_article_urls.
Propagate(why) ==
  /\ stop' = why
  /\ pc' = "h_except"

\* driver.get(full_url): the page renders, or a WebDriverException is caught
\* and [] returned, or an exception of another class is raised.
NavGet ==
  /\ pc = "nav_get"
  /\ \/ /\ \E p \in Pages : page' = p /\ rendered' = rendered \cup HrefsOf(p)
        /\ all_urls' = {}
        /\ click_count' = 0
        /\ pc' = "loop"
        /\ UNCHANGED <<urls, stop>>
     \/ /\ urls' = <<>>
        /\ stop' = "load"
        /\ pc' = "finally"
        /\ UNCHANGED <<page, rendered, all_urls, click_count>>
     \/ /\ Propagate("load")
        /\ UNCHANGED <<page, rendered, all_urls, click_count, urls>>
  /\ UNCHANGED <<max_clicks, driver, clicksIssued, rounds, phase2Vars, extractVars>>

\* while click_count < max_clicks and click_count < HARD_LIMIT_CLICKS
LoopTest ==
  /\ pc = "loop"
  /\ IF LoopGuard(click_count, max_clicks)
     THEN pc' = "read" /\ UNCHANGED stop
     ELSE Break("budget")
  /\ UNCHANGED <<navRest, page, all_urls, click_count, clicksIssued, rounds,
                 rendered, phase2Vars, extractVars>>

\* driver.page_source is read and parsed, and the matching hrefs are added to
\* all_urls; reading it may raise, outside any try.
ReadPage ==
  /\ pc = "read"
  /\ \/ /\ all_urls' = Accumulate(all_urls, CurrentUrls(page))
        /\ rounds' = rounds + 1
        /\ pc' = "find"
        /\ UNCHANGED stop
     \/ /\ Propagate("read")
        /\ UNCHANGED <<all_urls, rounds>>
  /\ UNCHANGED <<navRest, page, click_count, clicksIssued, rendered,
                 phase2Vars, extractVars>>

\* find_element and is_displayed: the control is there and shown, or it is
\* absent (NoSuchElementException), or hidden, or the lookup raises otherwise.
FindButton ==
  /\ pc = "find"
  /\ \/ pc' = "scroll" /\ UNCHANGED stop
     \/ Break("absent")
     \/ Break("hidden")
     \/ Break("error")
  /\ UNCHANGED <<navRest, page, all_urls, click_count, clicksIssued, rounds,
                 rendered, phase2Vars, extractVars>>

\* execute_script(scrollIntoView) and time.sleep(1.0)
Scroll ==
  /\ pc = "scroll"
  /\ \/ pc' = "click" /\ UNCHANGED stop
     \/ Break("error")
  /\ UNCHANGED <<navRest, page, all_urls, click_count, clicksIssued, rounds,
                 rendered, phase2Vars, extractVars>>

\* view_more_button.click(); click_count += 1.  A click that goes through
\* makes the page render whatever the site sends; one that raises leaves the
\* counter alone.
Click ==
  /\ pc = "click"
  /\ clicksIssued' = clicksIssued + 1
  /\ \/ /\ \E p \in Pages : page' = p /\ rendered' = rendered \cup HrefsOf(p)
        /\ click_count' = click_count + 1
        /\ pc' = "wait"
        /\ UNCHANGED stop
     \/ /\ Break("error")
        /\ UNCHANGED <<page, rendered, click_count>>
  /\ UNCHANGED <<navRest, all_urls, rounds, phase2Vars, extractVars>>

\* WebDriverWait(driver, 10).until(invisibility of .facetwp-loading)
Wait ==
  /\ pc = "wait"
  /\ \/ pc' = "loop" /\ UNCHANGED stop
     \/ Break("timeout")
     \/ Break("error")
  /\ UNCHANGED <<navRest, page, all_urls, click_count, clicksIssued, rounds,
                 rendered, phase2Vars, extractVars>>

\* return list(all_urls)
NavReturn ==
  /\ pc = "nav_return"
  /\ urls' \in Listings(all_urls)
  /\ pc' = "finally"
  /\ UNCHANGED <<max_clicks, driver, page, all_urls, click_count, stop,
                 clicksIssued, rounds, rendered, phase2Vars, extractVars>>

Navigate ==
  NavGet \/ LoopTest \/ ReadPage \/ FindButton \/ Scroll \/ Click \/ Wait
    \/ NavReturn

(***************************************************************************)
(* The "Start Scraping" handler                                            *)
(***************************************************************************)

\* if st.button("Start Scraping"): driver = None, and the try block is entered.
StartScraping ==
  /\ pc = "idle"
  /\ pc' = "get_driver"
  /\ UNCHANGED <<navVars, phase2Vars, extractVars>>

\* driver = get_driver(): a session starts, or webdriver.Chrome raises.
GetDriver ==
  /\ pc = "get_driver"
  /\ \/ driver' = "open" /\ pc' = "nav_get" /\ UNCHANGED stop
     \/ driver' = driver /\ Propagate("start")
  /\ UNCHANGED <<max_clicks, page, all_urls, click_count, urls, clicksIssued,
                 rounds, rendered, phase2Vars, extractVars>>

\* except Exception as e: st.error(...); urls = []
HandlerExcept ==
  /\ pc = "h_except"
  /\ urls' = <<>>
  /\ pc' = "finally"
  /\ UNCHANGED <<max_clicks, driver, page, all_urls, click_count, stop,
                 clicksIssued, rounds, rendered, phase2Vars, extractVars>>

\* QuitsDriver for a handler that never quits; C3Theorem does not survive it.
QuitsNever(d) == FALSE

\* if driver:
QuitsDriver(d) == d # "none"

\* finally: if driver: driver.quit(); del driver; gc.collect().  The quit ends
\* the session and the function's frame is gone; a quit that raises ends the
\* run of the script.
Finally ==
  /\ pc = "finally"
  /\ \/ /\ driver' = IF QuitsDriver(driver) THEN "closed" ELSE driver
        /\ pc' = "phase2"
     \/ /\ QuitsDriver(driver)
        /\ driver' = driver
        /\ pc' = "aborted"
  /\ page' = <<>>
  /\ click_count' = 0
  /\ clicksIssued' = 0
  /\ rounds' = 0
  /\ rendered' = {}
  /\ UNCHANGED <<max_clicks, all_urls, urls, stop, phase2Vars, extractVars>>

\* if not urls: warning; else: the session and all_records are set up and
\* the loop over sorted(urls) starts.
Phase2Start ==
  /\ pc = "phase2"
  /\ IF urls = <<>>
     THEN /\ outcome' = "no_articles"
          /\ pc' = "done"
          /\ UNCHANGED <<queue, idx, all_records>>
     ELSE /\ queue' = Sorted(urls)
          /\ idx' = 1
          /\ all_records' = <<>>
          /\ pc' = "p2loop"
          /\ UNCHANGED outcome
  /\ UNCHANGED <<navVars, served, extractVars>>

\* records = parse_single_article(url, session): the call, with what the site
\* will answer.
P2Call ==
  /\ pc = "p2loop"
  /\ xpc = "idle"
  /\ idx <= Len(queue)
  /\ url' = queue[idx]
  /\ \E r \in Fixtures : resp' = r /\ served' = Append(served, r)
  /\ xpc' = "get"
  /\ UNCHANGED <<pc, navVars, queue, idx, all_records, outcome, records, h2pos,
                 xresult, fetches>>

\* all_records.extend(records); progress; time.sleep(delay)
P2Collect ==
  /\ pc = "p2loop"
  /\ xpc = "returned"
  /\ all_records' = all_records \o xresult
  /\ idx' = idx + 1
  /\ xpc' = "idle"
  /\ xresult' = <<>>
  /\ UNCHANGED <<pc, navVars, queue, served, outcome, url, resp, records, h2pos,
                 fetches>>

\* After the loop: the table and the download button, or the warning.
P2Finish ==
  /\ pc = "p2loop"
  /\ xpc = "idle"
  /\ idx > Len(queue)
  /\ outcome' = IF all_records # <<>> THEN "success" ELSE "no_records"
  /\ pc' = "done"
  /\ UNCHANGED <<navVars, queue, idx, all_records, served, extractVars>>

Handler ==
  StartScraping \/ GetDriver \/ HandlerExcept \/ Finally \/ Phase2Start
    \/ P2Call \/ P2Collect \/ P2Finish

Next == Handler \/ Navigate \/ Extract

Spec == Init /\ [][Next]_vars

(***************************************************************************)
(* Claims about parse_single_article (checked under SpecExtract)           *)
(***************************************************************************)

\* The call has returned and nothing raised on the way.
ParsedWell ==
  /\ xpc = "returned"
  /\ resp.kind = "http"
  /\ ~RaisesForStatus(resp.status)
  /\ ~resp.malformed
  /\ resp.raiseAt = 0

\* The h2 headings that start a donor block, in document order.
DonorHeadings == SelectSeq(H2List(resp.nodes), LAMBDA i : Qualifies(resp.nodes, i))

\* The block of the k-th donor heading and its flattened text.
BlockOf(k) == ContentBlock(resp.nodes, DonorHeadings[k])
TextOf(k) == BlockText(BlockOf(k))

\* The fields the description is said to be cleaned of.
ValueKeys == {"Gift", "Recipient", "City", "Province", "Date"}

\* C5: every block with a non-empty donor heading and at least one following
\* element yields exactly one record, whose Donor is the heading's trimmed text,
\* whatever the block holds.
C5Claim ==
  ParsedWell =>
    /\ Len(xresult) = Len(DonorHeadings)
    /\ \A k \in 1..Len(DonorHeadings) :
         k <= Len(xresult) =>
           xresult[k]["Donor"] = Strip(resp.nodes[DonorHeadings[k]].text)

\* C6: no record's Description contains a non-empty value of its own Gift,
\* Recipient, City, Province or Date.
C6Claim ==
  ParsedWell =>
    \A k \in 1..Len(xresult) : \A key \in ValueKeys :
      xresult[k][key] # <<>> =>
        ~Contains(xresult[k]["Description"], xresult[k][key])

\* C8 as claimed: all records of one article carry the same Date.
C8Claim ==
  ParsedWell =>
    \A j, k \in 1..Len(xresult) : xresult[j]["Date"] = xresult[k]["Date"]

\* The positions in a block of the h6 elements, and of the h3 elements that
\* label a Date and have a next sibling.
H6In(block) == {i \in 1..Len(block) : block[i].tag = "h6"}
DateLabelsIn(block) ==
  {i \in 1..Len(block) - 1 :
     block[i].tag = "h3" /\ RemoveColons(Strip(block[i].text)) = <<"Date">>}

Least(S) == CHOOSE i \in S : \A j \in S : i <= j
Greatest(S) == CHOOSE i \in S : \A j \in S : i >= j

\* C8 as amended: Date is a field of the block.  Each record's Date is the
\* trimmed text of the first h6 of its own block; without an h6 it is the text
\* of the element after the block's last h3 "Date" label; without either it is
\* empty.
C8Theorem ==
  ParsedWell =>
    /\ Len(xresult) = Len(DonorHeadings)
    /\ \A k \in 1..Len(DonorHeadings) :
         k <= Len(xresult) =>
           xresult[k]["Date"] =
             IF H6In(BlockOf(k)) # {}
             THEN Strip(BlockOf(k)[Least(H6In(BlockOf(k)))].text)
             ELSE IF DateLabelsIn(BlockOf(k)) # {}
             THEN Strip(BlockOf(k)[Greatest(DateLabelsIn(BlockOf(k))) + 1].text)
             ELSE <<>>

\* Two records of one article whose Dates differ, one of them from an h6.
C8Witness ==
  /\ ParsedWell
  /\ Len(xresult) = 2
  /\ xresult[1]["Date"] # xresult[2]["Date"]
  /\ \E k \in 1..2 : H6In(BlockOf(k)) # {} /\ xresult[k]["Date"] # <<>>

\* C9 as claimed: the donor's name is not removed, so where it occurs in the
\* block's text (and in no other extracted value) it is still in Description.
C9Claim ==
  ParsedWell =>
    \A k \in 1..Len(xresult) :
      ( /\ k <= Len(DonorHeadings)
        /\ xresult[k]["Donor"] = Strip(resp.nodes[DonorHeadings[k]].text)
        /\ Contains(TextOf(k), xresult[k]["Donor"])
        /\ \A key \in ValueKeys : ~Contains(xresult[k][key], xresult[k]["Donor"]) )
      => Contains(xresult[k]["Description"], xresult[k]["Donor"])

\* C9 as amended: the Donor value is removed like the others, so where it
\* occurs in the block's text the Description is shorter than that text by at
\* least the donor's length.
C9Theorem ==
  ParsedWell =>
    \A k \in 1..Len(xresult) :
      (k <= Len(DonorHeadings) /\ Contains(TextOf(k), xresult[k]["Donor"]))
      => Len(xresult[k]["Description"]) + Len(xresult[k]["Donor"])
           <= Len(TextOf(k))

\* A record whose donor heading's text occurs in the block and is gone from a
\* Description that kept the rest.
C9Witness ==
  /\ ParsedWell
  /\ \E k \in 1..Len(xresult) :
       /\ xresult[k]["Donor"] = Strip(resp.nodes[DonorHeadings[k]].text)
       /\ Contains(TextOf(k), xresult[k]["Donor"])
       /\ xresult[k]["Description"] # <<>>
       /\ ~Contains(xresult[k]["Description"], xresult[k]["Donor"])


(***************************************************************************)
(* Claims about discovery and the handler (checked under Spec)             *)
(***************************************************************************)

SetOf(list) == {list[i] : i \in 1..Len(list)}

NoDuplicates(list) == \A i, j \in 1..Len(list) : list[i] = list[j] => i = j

Min(a, b) == IF a <= b THEN a ELSE b

\* The ways discovery ends on a failure of the browser automation.
AutomationFailures == {"load", "read", "absent", "error", "timeout"}

\* The ways discovery ends without one: the budget is used up, or the
\* load-more control is not there to click any more.
QuietStops == {"budget", "absent", "hidden"}

\* The article URLs of the anchors rendered so far in the session.
RenderedUrls ==
  {UrlJoin(Domain, h) : h \in {g \in rendered : MatchesSelector(g)}}

\* scheme://host...
IsAbsolute(u) == Len(u) >= 3 /\ u[1] = "https" /\ u[2] = "://"

\* C1: when discovery ends on an automation failure, the handler is left with
\* every URL accumulated before the failure.
C1Claim ==
  (pc = "finally" /\ stop \in AutomationFailures) => SetOf(urls) = all_urls

\* C2: neither the clicks issued nor the extraction rounds of a discovery
\* call exceed min(max_clicks, 50).
C2Theorem ==
  /\ clicksIssued <= Min(max_clicks, HARD_LIMIT_CLICKS)
  /\ rounds <= Min(max_clicks, HARD_LIMIT_CLICKS)
  /\ click_count <= clicksIssued

\* A budget above the ceiling, and the ceiling reached.
C2Witness ==
  /\ max_clicks > HARD_LIMIT_CLICKS
  /\ clicksIssued = HARD_LIMIT_CLICKS
  /\ rounds = HARD_LIMIT_CLICKS
  /\ pc = "nav_return"

\* Where the handler stands while get_all_article_urls uses the session.
SessionInUse == {"nav_get", "loop", "read", "find", "scroll", "click", "wait"}

\* C3: a session that was started is closed before the first article fetch;
\* nothing is fetched while it is open, and it is not used once closed.
C3Theorem ==
  /\ fetches # <<>> => driver = "closed"
  /\ xpc # "idle" => driver = "closed"
  /\ pc \in {"p2loop", "done"} => driver # "open"
  /\ pc \in SessionInUse => driver = "open"

\* Discovery stopped early on a failure, and an article is being fetched.
C3Witness ==
  /\ stop \in {"timeout", "error"}
  /\ driver = "closed"
  /\ xpc = "status"
  /\ Len(fetches) = 1

\* The records of every donor block of an article, in document order.
ParseAll(nodes, u) ==
  LET q == SelectSeq(H2List(nodes), LAMBDA i : Qualifies(nodes, i))
  IN [k \in 1..Len(q) |->
        ParseBlock(GetText(nodes[q[k]]), ContentBlock(nodes, q[k]), u)]

\* The response makes the parse raise in one of its donor blocks.
RaisesInBlock(r) ==
  /\ r.raiseAt \in 1..Len(H2List(r.nodes))
  /\ Qualifies(r.nodes, H2List(r.nodes)[r.raiseAt])

\* The fetch or the parse of the response fails, as the code has it: no
\* response, a 4xx or 5xx status, rejected markup, an exception in a block.
Fails(r) ==
  \/ r.kind = "neterr"
  \/ RaisesForStatus(r.status)
  \/ r.malformed
  \/ RaisesInBlock(r)

\* The same as the claim has it: any status outside 2xx is a failure.
FailsAsClaimed(r) ==
  \/ r.kind = "neterr"
  \/ r.status \notin 200..299
  \/ r.malformed
  \/ RaisesInBlock(r)

RECURSIVE Concat(_)
Concat(lists) == IF lists = <<>> THEN <<>> ELSE Head(lists) \o Concat(Tail(lists))

\* The URLs of queue whose records have been collected.
Collected == IF pc \in {"p2loop", "done"} THEN idx - 1 ELSE 0

\* C4 as claimed: a URL whose fetch or parse fails (no response, a status
\* outside 2xx, a parse exception) contributes nothing, and all_records is
\* the concatenation, in processing order, of the records of the others.
C4Claim ==
  pc \in {"p2loop", "done"} =>
    all_records =
      Concat([i \in 1..Collected |->
                IF FailsAsClaimed(served[i]) THEN <<>>
                ELSE ParseAll(served[i].nodes, queue[i])])

\* C4 as amended: the failing URLs are those with no response, a 4xx or 5xx
\* status or an exception during the parse.  Each contributes nothing, every
\* URL is fetched exactly once, in sorted order, and all_records is the
\* concatenation of the records of the others; the run reports success
\* exactly when all_records is not empty.
C4Theorem ==
  pc \in {"p2loop", "done"} =>
    /\ all_records =
         Concat([i \in 1..Collected |->
                   IF Fails(served[i]) THEN <<>>
                   ELSE ParseAll(served[i].nodes, queue[i])])
    /\ Len(fetches) \in {Collected, Collected + 1}
    /\ fetches = SubSeq(queue, 1, Len(fetches))
    /\ (pc = "done" /\ urls # <<>>) =>
         /\ fetches = queue
         /\ queue = Sorted(urls)
         /\ outcome = (IF all_records # <<>> THEN "success" ELSE "no_records")

\* Two articles, one failing and one yielding a record: one record, success.
C4Witness ==
  /\ pc = "done"
  /\ Len(queue) = 2
  /\ Fails(served[1])
  /\ ~Fails(served[2])
  /\ Len(all_records) = 1
  /\ outcome = "success"

\* C7: the returned list holds each URL once, each an absolute URL resolved
\* from a rendered href that the selector matches, and the accumulated set
\* only grows.
C7Theorem ==
  /\ [](/\ NoDuplicates(urls)
        /\ SetOf(urls) \subseteq all_urls
        /\ \A u \in all_urls : IsAbsolute(u)
        /\ (pc \in SessionInUse \cup {"nav_return", "finally"}) =>
             all_urls \subseteq RenderedUrls
        /\ (pc = "finally" /\ stop \notin {"load", "read", "start"}) =>
             SetOf(urls) = all_urls)
  /\ [][all_urls \subseteq all_urls']_vars

\* Two spellings of one article's href on the page, seen in two rounds, and
\* one URL returned.
C7Witness ==
  /\ pc = "finally"
  /\ rounds = 2
  /\ Len(page) = 2
  /\ page[1] # page[2]
  /\ \A i \in 1..2 : MatchesSelector(page[i])
  /\ Len(urls) = 1

\* C10: when discovery returns without an automation failure, every article
\* URL rendered during the session, the links revealed by the last click
\* included, is in the returned list.
C10Claim ==
  (pc = "finally" /\ stop \in QuietStops) => RenderedUrls \subseteq SetOf(urls)

\* The click budget ran out, and an article the last click revealed is not
\* in the list that was returned.
C10Witness ==
  /\ pc = "finally"
  /\ stop = "budget"
  /\ urls # <<>>
  /\ ~(RenderedUrls \subseteq SetOf(urls))
  /\ RenderedUrls \subseteq SetOf(urls) \cup CurrentUrls(page)

=============================================================================
